---- MODULE Spec2Model ----
(***************************************************************************)
(* A model of sentry's caching manager (src/sentry/db/models/manager.py)   *)
(* and of the Snuba event store (src/sentry/eventstore/snuba/backend.py).  *)
(*                                                                         *)
(* The cache part is a small-step machine: every handler (get_from_cache,  *)
(* __post_save, __post_delete, ...) is cut at its accesses to the cache    *)
(* backend and to the backing store, which are the atomic operations the   *)
(* code relies on.  Spec runs every handler to its end in one action;      *)
(* SpecConc interleaves the same steps of several threads.                 *)
(***************************************************************************)
EXTENDS Integers, Sequences, FiniteSets, TLC

VARIABLES cache, db, insts, tracked, th, last, saved, strict, fx

vars == <<cache, db, insts, tracked, th, last, saved, strict, fx>>

-----------------------------------------------------------------------------
(* Bounds of the model *)

\* primary keys of the backing store are 1..MaxPk
MaxPk == 1
\* number of distinct values of the cacheable field
NumSlugs == 2
\* number of references to in-memory model instances
MaxInst == 1

SlugNames == <<"a", "b", "c", "d">>
Slugs == {SlugNames[n] : n \in 1..NumSlugs}
PKs == 1..MaxPk
Insts == 1..MaxInst
Threads == {"T1", "T2"}

Range(seq) == {seq[n] : n \in 1..Len(seq)}

-----------------------------------------------------------------------------
(* The model class the manager is attached to, and the manager's settings *)

\* model.__name__
ModelName == "Entity"
\* model._meta.pk.name
PkName == "id"
\* BaseManager(cache_fields=['slug'])
CacheFields == <<"slug">>
\* instance.pk of an instance that has none (None)
NoPk == 0
\* instance._state.db / router.db_for_read(model)
DefaultDb == "default"
NoDb == "None"

None == [kind |-> "None"]
NoInst == [kind |-> "None"]
NoRow == [kind |-> "None"]
NoTrack == [kind |-> "None"]

\* a model instance
Obj(id, slug, conn) == [kind |-> "Entity", id |-> id, slug |-> slug, db |-> conn]
\* a row of the backing store
Row(slug) == [kind |-> "row", slug |-> slug]
\* a primary key as stored in a pointer entry
IntVal(n) == [kind |-> "int", v |-> n]

\* isinstance(value, Model)
IsModel(v) == v.kind = "Entity"

-----------------------------------------------------------------------------
(* KeyCodec: make_key *)

\* the kwargs names in use, in the order sorted() puts them
KeyOrder == <<"id", "pk", "slug", "slug__exact">>

\* six.text_type / smart_text of a field's value: the primary key is an
\* integer, the other fields are text already
TextOf(key, value) == IF key \in {"id", "pk"} THEN ToString(value) ELSE value

\* __prep_value
PrepValue(key, value) == TextOf(key, value)

\* __prep_key
PrepKey(key) == IF key = "pk" THEN PkName ELSE key

\* the pairs of kwargs as the caller gave them
ItemsAsGiven(kwargs) == kwargs

\* sorted(six.iteritems(kwargs)): the pairs of kwargs by ascending key
SortedItems(kwargs) ==
    LET keys == {kwargs[n][1] : n \in 1..Len(kwargs)}
        val(k) == (CHOOSE n \in 1..Len(kwargs) : kwargs[n][1] = k)
        ord == SelectSeq(KeyOrder, LAMBDA k : k \in keys)
    IN [n \in 1..Len(ord) |-> kwargs[val(ord[n])]]

\* md5_text(...).hexdigest(): a digest, taken to be free of collisions
Md5Text(bits) == bits

\* make_key(model, prefix, kwargs); kwargs is the sequence of its (key,
\* value) pairs in the order the caller gave them
MakeKey(prefix, kwargs) ==
    LET items == SortedItems(kwargs)
        bits == [n \in 1..Len(items) |->
                    <<PrepKey(items[n][1]), PrepValue(PrepKey(items[n][1]), items[n][2])>>]
    IN <<prefix, ModelName, Md5Text(bits)>>

\* BaseManager.__get_lookup_cache_key
GetLookupCacheKey(key, value) == MakeKey("modelcache", <<<<key, value>>>>)

-----------------------------------------------------------------------------
(* The cache backend: get / set / delete of one key, each atomic *)

CacheGet(c, k) == IF k \in DOMAIN c THEN c[k] ELSE None

CacheSet(c, k, v) == [x \in DOMAIN c \cup {k} |-> IF x = k THEN v ELSE c[x]]

CacheDelete(c, k) == [x \in DOMAIN c \ {k} |-> c[x]]

\* the cache operations of the manager that may raise
CacheOps == {"set_ptr", "set_val", "del_ptr", "del_val"}

-----------------------------------------------------------------------------
(* The backing store: Manager.get(kwargs) and the rows *)

\* Django's reading of a filter name: pk is the primary key, __exact is the
\* default lookup
FilterField(key) ==
    CASE key = "pk" -> PkName
      [] key = "slug__exact" -> "slug"
      [] key = "slug__iexact" -> "slug"
      [] OTHER -> key

RowMatches(d, p, kwargs) ==
    /\ d[p] # NoRow
    /\ \A n \in 1..Len(kwargs) :
          IF FilterField(kwargs[n][1]) = PkName
          THEN kwargs[n][2] = p
          ELSE d[p][FilterField(kwargs[n][1])] = kwargs[n][2]

\* the rows self.get(kwargs) matches (the cacheable field is unique)
DbMatches(d, kwargs) == {p \in PKs : RowMatches(d, p, kwargs)}

\* the instance the backing store builds from row p
FromRow(d, p) == Obj(p, d[p].slug, DefaultDb)

\* the unique constraint on the cacheable field
SlugFree(d, p, slug) ==
    \A q \in PKs \ {p} : IF d[q] = NoRow THEN TRUE ELSE d[q].slug # slug

-----------------------------------------------------------------------------
(* Tracked state *)

\* BaseManager.__value_for_field
ValueForField(obj, key) == IF key = "pk" THEN obj.id ELSE obj[key]

\* BaseManager.__cache_state: the tracked state of the instance afterwards
CacheState(obj, trk) ==
    IF obj.id # NoPk
    THEN [kind |-> "state",
          state |-> [f \in Range(CacheFields) |-> ValueForField(obj, f)]]
    ELSE trk

\* BaseManager.__post_init
PostInit(obj) == CacheState(obj, NoTrack)

-----------------------------------------------------------------------------
(* The state the handlers work on, and a thread's position in a handler *)

EmptyCache == [k \in {} |-> None]

\* a thread that runs no handler
IdleFrame ==
    [pc |-> "idle", op |-> "none", i |-> 0, obj |-> NoInst, trk |-> NoTrack,
     kw |-> <<>>, kw0 |-> <<>>, reads |-> 0, gets |-> 0, fails |-> {},
     fi |-> 0, pk |-> NoPk, old |-> NoRow, had |-> FALSE, bad |-> FALSE,
     wrote |-> FALSE]

\* no operation to report
NoLast ==
    [op |-> "none", kw |-> <<>>, out |-> "none",
     obj |-> NoInst, reads |-> 0, gets |-> 0, pk |-> NoPk, old |-> NoRow,
     had |-> FALSE, bad |-> FALSE, same |-> TRUE, fails |-> {}]

\* the current state as one value
S == [cache |-> cache, db |-> db, insts |-> insts, tracked |-> tracked,
      th |-> th, last |-> last]

SetState(s) ==
    /\ cache' = s.cache
    /\ db' = s.db
    /\ insts' = s.insts
    /\ tracked' = s.tracked
    /\ th' = s.th
    /\ last' = s.last

Min(set) == CHOOSE n \in set : \A m \in set : n <= m

\* The handler of thread t returns (out = "ok") or raises (out names the
\* exception).  The instance it worked on is left to the caller: save and
\* delete worked on the caller's instance; a lookup that returns binds the
\* caller's reference i (if the caller keeps the result: i # 0) to the
\* instance returned, a new object no thread has tracked state for but the
\* one that built it.
Finish(s, t, out) ==
    LET f == s.th[t]
        bind == \/ f.op \in {"save", "delete"}
                \/ (f.op = "lookup" /\ out = "ok" /\ f.i # 0)
    IN [s EXCEPT
          !.th = [s.th EXCEPT ![t] = IdleFrame],
          !.insts = IF bind THEN [s.insts EXCEPT ![f.i] = f.obj] ELSE s.insts,
          !.tracked =
              IF ~bind THEN s.tracked
              ELSE [u \in Threads |->
                      [s.tracked[u] EXCEPT ![f.i] =
                          IF u = t THEN f.trk
                          ELSE IF f.op = "lookup" THEN NoTrack
                          ELSE s.tracked[u][f.i]]],
          !.last = [op |-> f.op, kw |-> f.kw0, out |-> out,
                    obj |-> IF out = "ok" \/ f.op # "lookup" THEN f.obj ELSE NoInst,
                    reads |-> f.reads, gets |-> f.gets, pk |-> f.pk, old |-> f.old,
                    had |-> f.had, bad |-> f.bad, same |-> TRUE,
                    fails |-> f.fails]]

-----------------------------------------------------------------------------
(* BaseManager.__post_save, cut at its cache operations *)

\* key in pk_names
IsPkField(key) == key \in {"pk", PkName}

\* the next cache field from position j on that gets a pointer entry, 0 if none
PtrFrom(j) ==
    LET c == {n \in j..Len(CacheFields) : ~IsPkField(CacheFields[n])}
    IN IF c = {} THEN 0 ELSE Min(c)

\* the tracked value of cache field n differs from the instance's value
Stale(obj, trk, n) ==
    /\ trk # NoTrack
    /\ CacheFields[n] \in DOMAIN trk.state
    /\ trk.state[CacheFields[n]] # ValueForField(obj, CacheFields[n])

\* the next cache field from position j on whose old pointer is deleted
DelFrom(obj, trk, j) ==
    LET c == {n \in j..Len(CacheFields) : Stale(obj, trk, n)}
    IN IF c = {} THEN 0 ELSE Min(c)

\* __post_save is entered: the loop over the pointers comes first
PostSaveEnter(s, t) ==
    LET j == PtrFrom(1)
    IN [s EXCEPT !.th[t].pc = IF j # 0 THEN "ps_ptr" ELSE "ps_val",
                 !.th[t].fi = j]

\* self.__cache_state(instance), the last statement, and the return
PostSaveLeave(s, t) ==
    LET f == s.th[t]
    IN Finish([s EXCEPT !.th[t].trk = CacheState(f.obj, f.trk)], t, "ok")

\* PsPtr without its cache.set
PsPtrNoSet(s, t) ==
    LET f == s.th[t]
        j == PtrFrom(f.fi + 1)
    IN IF "set_ptr" \in f.fails THEN Finish(s, t, "CacheError")
       ELSE [s EXCEPT !.th[t].pc = IF j # 0 THEN "ps_ptr" ELSE "ps_val",
                      !.th[t].fi = j]

\* cache.set of the pointer of cache field fi; an exception of the cache
\* backend leaves the handler
PsPtr(s, t) ==
    LET f == s.th[t]
        key == CacheFields[f.fi]
        value == ValueForField(f.obj, key)
        j == PtrFrom(f.fi + 1)
    IN IF "set_ptr" \in f.fails THEN Finish(s, t, "CacheError")
       ELSE [s EXCEPT
               !.cache = CacheSet(s.cache, GetLookupCacheKey(key, value),
                                  IntVal(f.obj.id)),
               !.th[t].pc = IF j # 0 THEN "ps_ptr" ELSE "ps_val",
               !.th[t].fi = j]

\* the loop that deletes the pointers no longer valid is entered at field j
PsDelEnter(s, t, j) ==
    IF j # 0 THEN [s EXCEPT !.th[t].pc = "ps_del", !.th[t].fi = j]
    ELSE PostSaveLeave(s, t)

\* PsVal without its cache.set
PsValNoSet(s, t) ==
    PsDelEnter(s, t, DelFrom(s.th[t].obj, s.th[t].trk, 1))

\* PsVal with _state.db put back only when cache.set has not raised
PsValRestoreInTry(s, t) ==
    LET f == s.th[t]
        conn == f.obj.db
        stored == [f.obj EXCEPT !.db = NoDb]
        c1 == IF "set_val" \in f.fails THEN s.cache
              ELSE CacheSet(s.cache, GetLookupCacheKey(PkName, f.obj.id), stored)
        after == IF "set_val" \in f.fails THEN stored
                 ELSE [stored EXCEPT !.db = conn]
    IN PsDelEnter([s EXCEPT !.cache = c1, !.th[t].obj = after], t,
                  DelFrom(after, f.trk, 1))

\* cache.set of the instance under its primary key, with _state.db cleared
\* for the write and put back after it; an exception is logged
PsVal(s, t) ==
    LET f == s.th[t]
        conn == f.obj.db
        stored == [f.obj EXCEPT !.db = NoDb]
        c1 == IF "set_val" \in f.fails THEN s.cache
              ELSE CacheSet(s.cache, GetLookupCacheKey(PkName, f.obj.id), stored)
        after == [stored EXCEPT !.db = conn]
    IN PsDelEnter([s EXCEPT !.cache = c1, !.th[t].obj = after], t,
                  DelFrom(after, f.trk, 1))

\* PsDel without its cache.delete
PsDelNoDelete(s, t) ==
    LET f == s.th[t]
    IN IF "del_ptr" \in f.fails THEN Finish(s, t, "CacheError")
       ELSE PsDelEnter(s, t, DelFrom(f.obj, f.trk, f.fi + 1))

\* cache.delete of the pointer of the tracked (old) value of cache field fi
PsDel(s, t) ==
    LET f == s.th[t]
        key == CacheFields[f.fi]
        value == f.trk.state[key]
    IN IF "del_ptr" \in f.fails THEN Finish(s, t, "CacheError")
       ELSE PsDelEnter(
               [s EXCEPT !.cache = CacheDelete(s.cache, GetLookupCacheKey(key, value))],
               t, DelFrom(f.obj, f.trk, f.fi + 1))

-----------------------------------------------------------------------------
(* BaseManager.__post_delete, cut at its cache operations *)

\* cache.delete of the pointer of cache field fi, by the instance's value
PdPtr(s, t) ==
    LET f == s.th[t]
        key == CacheFields[f.fi]
        value == ValueForField(f.obj, key)
        j == PtrFrom(f.fi + 1)
    IN IF "del_ptr" \in f.fails THEN Finish(s, t, "CacheError")
       ELSE [s EXCEPT
               !.cache = CacheDelete(s.cache, GetLookupCacheKey(key, value)),
               !.th[t].pc = IF j # 0 THEN "pd_ptr" ELSE "pd_val",
               !.th[t].fi = j]

\* cache.delete of the instance's entry; the delete then clears instance.pk
PdVal(s, t) ==
    LET f == s.th[t]
    IN IF "del_val" \in f.fails THEN Finish(s, t, "CacheError")
       ELSE Finish(
               [s EXCEPT
                  !.cache = CacheDelete(s.cache, GetLookupCacheKey(PkName, f.obj.id)),
                  !.th[t].obj = [f.obj EXCEPT !.id = NoPk]],
               t, "ok")

-----------------------------------------------------------------------------
(* BaseManager.get_from_cache, cut at its cache and backing-store accesses *)

\* key.endswith('__exact')
EndsWithExact(key) == key \in {"slug__exact"}

\* key.split('__exact', 1)[0]
StripExact(key) == IF key = "slug__exact" THEN "slug" ELSE key

\* the key get_from_cache looks up: pk is the primary key's name, and a
\* trailing __exact is dropped
LookupKey(kwargs) ==
    LET key0 == kwargs[1][1]
        key1 == IF key0 = "pk" THEN PkName ELSE key0
    IN IF EndsWithExact(key1) THEN StripExact(key1) ELSE key1

\* the value get_from_cache looks up (the callers here pass scalars)
LookupValue(kwargs) == kwargs[1][2]

\* self.get(kwargs), returned as it is: the instance the backing store
\* builds (post_init tracks it), or DoesNotExist
PlainGet(s, t) ==
    LET f == s.th[t]
        m == DbMatches(s.db, f.kw)
        s1 == [s EXCEPT !.th[t].gets = f.gets + 1]
        result == FromRow(s.db, CHOOSE p \in m : TRUE)
    IN IF m = {} THEN Finish(s1, t, "NotFound")
       ELSE Finish([s1 EXCEPT !.th[t].obj = result,
                              !.th[t].trk = PostInit(result)], t, "ok")

\* GcMiss that leaves a marker in the cache when the row is missing
GcMissNegative(s, t) ==
    LET f == s.th[t]
        m == DbMatches(s.db, f.kw)
        s1 == [s EXCEPT !.th[t].gets = f.gets + 1]
        result == FromRow(s.db, CHOOSE p \in m : TRUE)
        key == GetLookupCacheKey(LookupKey(f.kw), LookupValue(f.kw))
    IN IF m = {}
       THEN Finish([s1 EXCEPT !.cache = CacheSet(s.cache, key, IntVal(NoPk))],
                   t, "NotFound")
       ELSE PostSaveEnter([s1 EXCEPT !.th[t].obj = result,
                                     !.th[t].trk = PostInit(result)], t)

\* GcMiss that returns the result without self.__post_save(instance=result)
GcMissNoFill(s, t) ==
    LET f == s.th[t]
        m == DbMatches(s.db, f.kw)
        s1 == [s EXCEPT !.th[t].gets = f.gets + 1]
        result == FromRow(s.db, CHOOSE p \in m : TRUE)
    IN IF m = {} THEN Finish(s1, t, "NotFound")
       ELSE Finish([s1 EXCEPT !.th[t].obj = result,
                              !.th[t].trk = PostInit(result)], t, "ok")

\* the cache had no entry: result = self.get(kwargs), then
\* self.__post_save(instance=result)
GcMiss(s, t) ==
    LET f == s.th[t]
        m == DbMatches(s.db, f.kw)
        s1 == [s EXCEPT !.th[t].gets = f.gets + 1]
        result == FromRow(s.db, CHOOSE p \in m : TRUE)
    IN IF m = {} THEN Finish(s1, t, "NotFound")
       ELSE PostSaveEnter([s1 EXCEPT !.th[t].obj = result,
                                     !.th[t].trk = PostInit(result)], t)

\* a value the cache returned under a primary key is not what was asked for:
\* raise when settings.DEBUG, else log and return self.get(kwargs)
Invalid(s, t) ==
    IF strict THEN Finish([s EXCEPT !.th[t].bad = TRUE], t, "ValueError")
    ELSE [s EXCEPT !.th[t].pc = "gc_get", !.th[t].bad = TRUE]

\* GcRead without the comparison of the primary keys
GcReadNoPkCheck(s, t) ==
    LET f == s.th[t]
        key == LookupKey(f.kw)
        value == LookupValue(f.kw)
        retval == CacheGet(s.cache, GetLookupCacheKey(key, value))
        s1 == [s EXCEPT !.th[t].reads = f.reads + 1]
    IN IF retval = None THEN [s1 EXCEPT !.th[t].pc = "gc_miss"]
       ELSE IF key # PkName
       THEN [s1 EXCEPT !.th[t].pc = "gc_call",
                       !.th[t].kw = <<<<PkName, retval.v>>>>]
       ELSE IF ~IsModel(retval) THEN Invalid(s1, t)
       ELSE Finish([s1 EXCEPT !.th[t].obj = [retval EXCEPT !.db = DefaultDb],
                              !.th[t].trk = NoTrack], t, "ok")

\* retval = cache.get(cache_key, version) and what follows it up to the next
\* access
GcRead(s, t) ==
    LET f == s.th[t]
        key == LookupKey(f.kw)
        value == LookupValue(f.kw)
        retval == CacheGet(s.cache, GetLookupCacheKey(key, value))
        s1 == [s EXCEPT !.th[t].reads = f.reads + 1]
    IN IF retval = None THEN [s1 EXCEPT !.th[t].pc = "gc_miss"]
       ELSE IF key # PkName
       THEN [s1 EXCEPT !.th[t].pc = "gc_call",
                       !.th[t].kw = <<<<PkName, retval.v>>>>]
       ELSE IF ~IsModel(retval) THEN Invalid(s1, t)
       ELSE IF value # retval.id THEN Invalid(s1, t)
       ELSE Finish([s1 EXCEPT !.th[t].obj = [retval EXCEPT !.db = DefaultDb],
                              !.th[t].trk = NoTrack], t, "ok")

\* GcEnterOf without the tests that send a lookup to self.get(kwargs)
GcEnterAlwaysCached(cache_fields, s, t) == GcRead(s, t)

\* get_from_cache of a manager with these cache_fields is entered with the
\* frame's kwargs
GcEnterOf(cache_fields, s, t) ==
    LET f == s.th[t]
        key == LookupKey(f.kw)
    IN IF cache_fields = <<>> \/ Len(f.kw) > 1 THEN PlainGet(s, t)
       ELSE IF key \in Range(cache_fields) \/ key = PkName THEN GcRead(s, t)
       ELSE PlainGet(s, t)

\* get_from_cache of the manager with cache_fields = CacheFields
GcEnter(s, t) == GcEnterOf(CacheFields, s, t)

-----------------------------------------------------------------------------
(* One step of a thread, and a handler run to its end *)

Access(s, t) ==
    CASE s.th[t].pc = "ps_ptr" -> PsPtr(s, t)
      [] s.th[t].pc = "ps_val" -> PsVal(s, t)
      [] s.th[t].pc = "ps_del" -> PsDel(s, t)
      [] s.th[t].pc = "pd_ptr" -> PdPtr(s, t)
      [] s.th[t].pc = "pd_val" -> PdVal(s, t)
      [] s.th[t].pc = "gc_miss" -> GcMiss(s, t)
      [] s.th[t].pc = "gc_call" -> GcEnter(s, t)
      [] s.th[t].pc = "gc_get" -> PlainGet(s, t)

\* One step of thread t: its next access and what follows it up to the
\* access after that.  It is noted whether the handler has changed the
\* cache's content; a lookup reports it (same) when it ends.
Step(s, t) ==
    LET r == Access(s, t)
        w == s.th[t].wrote \/ r.cache # s.cache
    IN IF r.th[t].pc = "idle"
       THEN [r EXCEPT !.last.same = IF s.th[t].op = "lookup" THEN ~w ELSE TRUE]
       ELSE [r EXCEPT !.th[t].wrote = w]

RECURSIVE Run(_, _)
Run(s, t) == IF s.th[t].pc = "idle" THEN s ELSE Run(Step(s, t), t)

\* a frame for a handler that starts now
NewFrame(s, t, op, i) ==
    [IdleFrame EXCEPT !.op = op, !.i = i]

\* Model.save() of the instance behind reference i: the row is written (an
\* instance without primary key gets p), then post_save runs __post_save
BeginSave(s, t, i, p, fails) ==
    LET obj == s.insts[i]
        pk == IF obj.id = NoPk THEN p ELSE obj.id
        f == [NewFrame(s, t, "save", i) EXCEPT
                !.obj = [obj EXCEPT !.id = pk, !.db = DefaultDb],
                !.trk = s.tracked[t][i],
                !.had = (s.tracked[t][i] # NoTrack),
                !.pk = pk, !.old = s.db[pk], !.fails = fails]
    IN PostSaveEnter([s EXCEPT !.db[pk] = Row(obj.slug), !.th[t] = f], t)

\* Model.delete() of the instance behind reference i: the row is deleted,
\* then post_delete runs __post_delete
BeginDelete(s, t, i, fails) ==
    LET obj == s.insts[i]
        j == PtrFrom(1)
        f == [NewFrame(s, t, "delete", i) EXCEPT
                !.obj = obj, !.trk = s.tracked[t][i],
                !.had = (s.tracked[t][i] # NoTrack),
                !.pk = obj.id, !.old = s.db[obj.id], !.fails = fails,
                !.pc = IF j # 0 THEN "pd_ptr" ELSE "pd_val", !.fi = j]
    IN [s EXCEPT !.db[obj.id] = NoRow, !.th[t] = f]

\* objects.get_from_cache(kwargs), its result bound to reference i
BeginLookup(s, t, i, kwargs) ==
    GcEnter([s EXCEPT !.th[t] = [NewFrame(s, t, "lookup", i) EXCEPT
                                    !.kw = kwargs, !.kw0 = kwargs]], t)

\* uncache_object that also deletes the pointers that resolve to instance_id
UncacheObjectChasing(s, t, p) ==
    LET rest == {k \in DOMAIN s.cache :
                    k # GetLookupCacheKey(PkName, p) /\ s.cache[k] # IntVal(p)}
    IN Finish([s EXCEPT !.cache = [k \in rest |-> s.cache[k]],
                        !.th[t] = [NewFrame(s, t, "uncache", 0) EXCEPT !.pk = p]],
              t, "ok")

\* BaseManager.uncache_object(instance_id)
UncacheObject(s, t, p) ==
    Finish([s EXCEPT !.cache = CacheDelete(s.cache, GetLookupCacheKey(PkName, p)),
                     !.th[t] = [NewFrame(s, t, "uncache", 0) EXCEPT !.pk = p]],
           t, "ok")

-----------------------------------------------------------------------------
(* The operations, each run to its end in one action *)

Idle == \A t \in Threads : th[t].pc = "idle"

\* no handler in flight works on the instance behind reference i
Free(i) == \A t \in Threads : th[t].pc = "idle" \/ th[t].i # i

\* the keyword arguments the callers of get_from_cache pass
LookupArgs ==
    {<<<<"pk", p>>>> : p \in PKs}
      \cup {<<<<"slug", v>>>> : v \in Slugs}
      \cup {<<<<"slug__exact", v>>>> : v \in Slugs}
      \cup {<<<<"pk", p>>, <<"slug", v>>>> : p \in PKs, v \in Slugs}

\* Model.save() can be called: there is an instance, a primary key for it
\* when it has none, and no other row holds its value of the unique field
CanSave(i, p) ==
    /\ insts[i] # NoInst
    /\ IF insts[i].id = NoPk THEN db[p] = NoRow ELSE p = insts[i].id
    /\ SlugFree(db, p, insts[i].slug)

\* the instance the save that returned last has saved, and whether that
\* save wrote its value entry, for as long as nothing but lookups follows
SavedBy(l) ==
    [p \in PKs |->
        IF l.op = "save" /\ l.out = "ok" /\ l.pk = p
        THEN [kind |-> "saved", obj |-> l.obj, put |-> "set_val" \notin l.fails]
        ELSE NoInst]

NoneSaved == [p \in PKs |-> NoInst]

Save(t, i, p, fails) ==
    /\ Idle
    /\ CanSave(i, p)
    /\ SetState(Run(BeginSave(S, t, i, p, fails), t))
    /\ saved' = SavedBy(last')
    /\ UNCHANGED <<strict, fx>>

Delete(t, i, fails) ==
    /\ Idle
    /\ insts[i] # NoInst
    /\ insts[i].id # NoPk
    /\ SetState(Run(BeginDelete(S, t, i, fails), t))
    /\ saved' = NoneSaved
    /\ UNCHANGED <<strict, fx>>

Lookup(t, i, kwargs) ==
    /\ Idle
    /\ SetState(Run(BeginLookup(S, t, i, kwargs), t))
    /\ UNCHANGED <<saved, strict, fx>>

Uncache(t, p) ==
    /\ Idle
    /\ SetState(UncacheObject(S, t, p))
    /\ saved' = NoneSaved
    /\ UNCHANGED <<strict, fx>>

\* Model(id=pk, slug=slug) behind reference i: post_init tracks the new
\* instance in the constructing thread when it has a primary key
Construct(t, i, pk, slug) ==
    /\ Free(i)
    /\ insts' = [insts EXCEPT ![i] = Obj(pk, slug, NoDb)]
    /\ tracked' = [u \in Threads |->
                     [tracked[u] EXCEPT ![i] =
                         IF u = t THEN PostInit(Obj(pk, slug, NoDb)) ELSE NoTrack]]
    /\ last' = NoLast
    /\ UNCHANGED <<cache, db, th, saved, strict, fx>>

\* instance.slug = slug
Mutate(i, slug) ==
    /\ Free(i)
    /\ insts[i] # NoInst
    /\ insts[i].slug # slug
    /\ insts' = [insts EXCEPT ![i].slug = slug]
    /\ last' = NoLast
    /\ UNCHANGED <<cache, db, tracked, th, saved, strict, fx>>

\* the cache backend drops an entry whose timeout (cache_ttl) has passed
Expire(k) ==
    /\ k \in DOMAIN cache
    /\ cache' = CacheDelete(cache, k)
    /\ last' = NoLast
    /\ saved' = NoneSaved
    /\ UNCHANGED <<db, insts, tracked, th, strict, fx>>

\* the cache operation that raises in a handler, if one does
SaveFails == {{}, {"set_ptr"}, {"set_val"}, {"del_ptr"}}
DeleteFails == {{}, {"del_ptr"}, {"del_val"}}

Init ==
    /\ cache = EmptyCache
    /\ db = [p \in PKs |-> NoRow]
    /\ insts = [i \in Insts |-> NoInst]
    /\ tracked = [t \in Threads |-> [i \in Insts |-> NoTrack]]
    /\ th = [t \in Threads |-> IdleFrame]
    /\ last = NoLast
    /\ saved = NoneSaved
    /\ strict = FALSE
    /\ fx = <<>>

Next ==
    \/ \E t \in Threads, i \in Insts, p \in PKs, fails \in SaveFails :
          Save(t, i, p, fails)
    \/ \E t \in Threads, i \in Insts, fails \in DeleteFails : Delete(t, i, fails)
    \/ \E t \in Threads, i \in Insts, kwargs \in LookupArgs : Lookup(t, i, kwargs)
    \/ \E t \in Threads, p \in PKs : Uncache(t, p)
    \/ \E t \in Threads, i \in Insts, pk \in {NoPk} \cup PKs, slug \in Slugs :
          Construct(t, i, pk, slug)
    \/ \E i \in Insts, slug \in Slugs : Mutate(i, slug)
    \/ \E k \in DOMAIN cache : Expire(k)

Spec == Init /\ [][Next]_vars

-----------------------------------------------------------------------------
(* The cache backend holding an entry the manager did not write *)

\* what another writer of the cache may leave under a primary key's cache
\* key: a value that is no model instance, or an instance of another
\* primary key
Foreign(p) ==
    {IntVal(p)} \cup {Obj(q, v, NoDb) : q \in (1..MaxPk + 1) \ {p}, v \in Slugs}

Poison(p, v) ==
    /\ Idle
    /\ cache' = CacheSet(cache, GetLookupCacheKey(PkName, p), v)
    /\ last' = NoLast
    /\ saved' = NoneSaved
    /\ UNCHANGED <<db, insts, tracked, th, strict, fx>>

\* settings.DEBUG is either way
InitPoison ==
    /\ cache = EmptyCache
    /\ db = [p \in PKs |-> NoRow]
    /\ insts = [i \in Insts |-> NoInst]
    /\ tracked = [t \in Threads |-> [i \in Insts |-> NoTrack]]
    /\ th = [t \in Threads |-> IdleFrame]
    /\ last = NoLast
    /\ saved = NoneSaved
    /\ strict \in BOOLEAN
    /\ fx = <<>>

NextPoison ==
    \/ Next
    \/ \E p \in PKs : \E v \in Foreign(p) : Poison(p, v)

SpecPoison == InitPoison /\ [][NextPoison]_vars

-----------------------------------------------------------------------------
(* Threads that interleave at the accesses to the cache and the store *)

\* the most recent save of each primary key that has returned
Committed(t) ==
    IF th[t].op = "save" /\ th'[t].pc = "idle" /\ last'.out = "ok"
    THEN [saved EXCEPT ![last'.pk] = [kind |-> "saved", obj |-> last'.obj,
                                      put |-> "set_val" \notin last'.fails]]
    ELSE saved

\* thread t calls save(): the row is written
CSave(t, i, p) ==
    /\ th[t].pc = "idle"
    /\ Free(i)
    /\ CanSave(i, p)
    /\ SetState(BeginSave(S, t, i, p, {}))
    /\ UNCHANGED <<saved, strict, fx>>

\* the lookups of the interleaved threads: by primary key, by the cacheable
\* field
ConcArgs ==
    {<<<<"pk", p>>>> : p \in PKs} \cup {<<<<"slug", v>>>> : v \in Slugs}

\* thread t calls get_from_cache() and drops what it returns
CLookup(t, kwargs) ==
    /\ th[t].pc = "idle"
    /\ SetState(BeginLookup(S, t, 0, kwargs))
    /\ UNCHANGED <<saved, strict, fx>>

\* thread t goes on to its next access
CStep(t) ==
    /\ th[t].pc # "idle"
    /\ SetState(Step(S, t))
    /\ saved' = Committed(t)
    /\ UNCHANGED <<strict, fx>>

NextConc ==
    \/ \E t \in Threads, i \in Insts, p \in PKs : CSave(t, i, p)
    \/ \E t \in Threads, kwargs \in ConcArgs : CLookup(t, kwargs)
    \/ \E t \in Threads : CStep(t)
    \/ \E t \in Threads, i \in Insts, pk \in {NoPk} \cup PKs, slug \in Slugs :
          Construct(t, i, pk, slug)
    \/ \E i \in Insts, slug \in Slugs : Mutate(i, slug)

SpecConc == Init /\ [][NextConc]_vars

-----------------------------------------------------------------------------
(* get_from_cache while a write to the cache backend raises *)

\* the cache write that raises while get_from_cache runs, if it is made
FillFails == {{"set_ptr"}, {"set_val"}}

\* objects.get_from_cache(kwargs) with the cache operations in fails raising
BeginLookupFails(s, t, i, kwargs, fails) ==
    GcEnter([s EXCEPT !.th[t] = [NewFrame(s, t, "lookup", i) EXCEPT
                                    !.kw = kwargs, !.kw0 = kwargs,
                                    !.fails = fails]], t)

LookupFails(t, i, kwargs, fails) ==
    /\ Idle
    /\ SetState(Run(BeginLookupFails(S, t, i, kwargs, fails), t))
    /\ UNCHANGED <<saved, strict, fx>>

NextFill ==
    \/ Next
    \/ \E t \in Threads, i \in Insts, kwargs \in LookupArgs, fails \in FillFails :
          LookupFails(t, i, kwargs, fails)

SpecFill == Init /\ [][NextFill]_vars

-----------------------------------------------------------------------------
(* Lookups get_from_cache hands to self.get(kwargs) *)

\* a filter on the cacheable field that is not the field itself (the slugs
\* are lower case, so iexact matches what exact matches)
OtherArgs == {<<<<"slug__iexact", v>>>> : v \in Slugs}

\* get_from_cache(kwargs) of a second manager of the model, built without
\* cache_fields
BeginLookupOf(cache_fields, s, t, i, kwargs) ==
    GcEnterOf(cache_fields,
              [s EXCEPT !.th[t] = [NewFrame(s, t, "lookup", i) EXCEPT
                                      !.kw = kwargs, !.kw0 = kwargs]], t)

LookupUncached(t, i, kwargs) ==
    /\ Idle
    /\ SetState(Run(BeginLookupOf(<<>>, S, t, i, kwargs), t))
    /\ UNCHANGED <<saved, strict, fx>>

NextBypass ==
    \/ Next
    \/ \E t \in Threads, i \in Insts, kwargs \in OtherArgs : Lookup(t, i, kwargs)
    \/ \E t \in Threads, i \in Insts, kwargs \in LookupArgs \cup OtherArgs :
          LookupUncached(t, i, kwargs)

SpecBypass == Init /\ [][NextBypass]_vars

-----------------------------------------------------------------------------
(* uncache_object called with the id of no row as well *)

\* an instance_id no row has
OtherIds == {MaxPk + 1}

NextUncache ==
    \/ Next
    \/ \E t \in Threads, p \in OtherIds : Uncache(t, p)

SpecUncache == Init /\ [][NextUncache]_vars

-----------------------------------------------------------------------------
(* SnubaEventStorage: the events before and after an event
   (eventstore/snuba/backend.py) *)

\* timestamps are 1..MaxTime, project ids 1..MaxProject
MaxTime == 2
MaxProject == 2

\* hex event ids, listed in string order
EventIds == <<"0a", "1b">>

\* datetime.utcfromtimestamp(0)
Epoch == 0

NoFilter == [kind |-> "None"]
ProjectFilter(ps) == [kind |-> "filter", project_id |-> ps]

\* an event of the storage; event.datetime is the instant of event.timestamp
Event(ts, pid, eid) ==
    [kind |-> "SnubaEvent", timestamp |-> ts, datetime |-> ts,
     project_id |-> pid, event_id |-> eid]

\* (project_id, event_id), the pair a lookup returns
Pair(a, b) == [kind |-> "tuple", project_id |-> a, event_id |-> b]

\* the place of a value in its column's order: strings compare as strings
IdIndex(id) == CHOOSE n \in 1..Len(EventIds) : EventIds[n] = id
Rank(col, v) == IF col = "event_id" THEN IdIndex(v) ELSE v

Compare(op, a, b) ==
    CASE op = ">" -> a > b
      [] op = ">=" -> a >= b
      [] op = "<" -> a < b
      [] op = "<=" -> a <= b
      [] op = "=" -> a = b

\* one condition [column, operator, value] on a row
Holds(row, c) == Compare(c[2], Rank(c[1], row[c[1]]), Rank(c[1], c[3]))

\* conditions: every entry holds; an entry is a list of conditions of which
\* one holds (a single condition is written here as a list of one)
Matches(row, conditions) ==
    \A n \in 1..Len(conditions) :
        \E m \in 1..Len(conditions[n]) : Holds(row, conditions[n][m])

Filtered(row, filter_keys) ==
    IF filter_keys = NoFilter THEN TRUE
    ELSE row.project_id \in filter_keys.project_id

\* the time window start..end of a query
InWindow(row, start, end) == start <= row.timestamp /\ row.timestamp <= end

\* orderby entries: a column, or a column behind "-" for descending
Column(o) ==
    CASE o = "-timestamp" -> "timestamp"
      [] o = "-event_id" -> "event_id"
      [] OTHER -> o
Descending(o) == o \in {"-timestamp", "-event_id"}

RECURSIVE Before(_, _, _)
Before(x, y, orderby) ==
    IF orderby = <<>> THEN FALSE
    ELSE LET col == Column(Head(orderby))
             a == Rank(col, x[col])
             b == Rank(col, y[col])
         IN IF a = b THEN Before(x, y, Tail(orderby))
            ELSE IF Descending(Head(orderby)) THEN a > b ELSE a < b

\* snuba.raw_query(selected_columns = [event_id, project_id], limit = 1, ...):
\* the results it can give.  fault: the backend answers with an error.
RawQuery(rows, start, end, conditions, filter_keys, orderby, fault) ==
    LET found == {x \in rows : /\ InWindow(x, start, end)
                               /\ Matches(x, conditions)
                               /\ Filtered(x, filter_keys)}
        first == {x \in found : \A y \in found : ~Before(y, x, orderby)}
    IN IF fault THEN {[error |-> TRUE, data |-> <<>>]}
       ELSE IF found = {} THEN {[error |-> FALSE, data |-> <<>>]}
       ELSE {[error |-> FALSE,
              data |-> <<[event_id |-> x.event_id, project_id |-> x.project_id]>>] :
                 x \in first}

\* __get_next_or_prev_event_id, from the result of the query on
GetNextOrPrevEventId(result) ==
    IF result.error \/ Len(result.data) = 0 THEN None
    ELSE LET row == result.data[1]
         IN Pair(ToString(row.project_id), row.event_id)

\* a time condition that lets the event itself through
TimeConditionNextNoTie(event) ==
    << <<<<"timestamp", ">=", event.timestamp>>>> >>

TimeConditionNext(event) ==
    << <<<<"timestamp", ">=", event.timestamp>>>>,
       <<<<"timestamp", ">", event.timestamp>>,
         <<"event_id", ">", event.event_id>>>> >>

TimeConditionPrev(event) ==
    << <<<<"timestamp", "<=", event.timestamp>>>>,
       <<<<"timestamp", "<", event.timestamp>>,
         <<"event_id", "<", event.event_id>>>> >>

\* what a call leaves in fx
Answered(op, filter_keys, error, out) ==
    [fx EXCEPT !.op = op, !.fk = filter_keys, !.error = error, !.out = out]

\* get_next_event_id(event, conditions, filter_keys); conditions is a list,
\* None being the empty one; fx.now is datetime.utcnow()
GetNextEventId(conditions, filter_keys, fault) ==
    /\ IF fx.event = None
       THEN fx' = Answered("next", filter_keys, FALSE, None)
       ELSE \E result \in RawQuery(fx.rows, fx.event.datetime, fx.now,
                                   conditions \o TimeConditionNext(fx.event),
                                   filter_keys, <<"timestamp", "event_id">>,
                                   fault) :
               fx' = Answered("next", filter_keys, result.error,
                              GetNextOrPrevEventId(result))
    /\ UNCHANGED <<cache, db, insts, tracked, th, last, saved, strict>>

\* get_prev_event_id(event, conditions, filter_keys)
GetPrevEventId(conditions, filter_keys, fault) ==
    /\ IF fx.event = None
       THEN fx' = Answered("prev", filter_keys, FALSE, None)
       ELSE \E result \in RawQuery(fx.rows, Epoch, fx.event.datetime,
                                   conditions \o TimeConditionPrev(fx.event),
                                   filter_keys, <<"-timestamp", "-event_id">>,
                                   fault) :
               fx' = Answered("prev", filter_keys, result.error,
                              GetNextOrPrevEventId(result))
    /\ UNCHANGED <<cache, db, insts, tracked, th, last, saved, strict>>

\* the event ids of a project are distinct
EventSets ==
    {rows \in SUBSET {Event(ts, pid, eid) : ts \in 1..MaxTime,
                                            pid \in 1..MaxProject,
                                            eid \in Range(EventIds)} :
        \A x, y \in rows :
            (x.project_id = y.project_id /\ x.event_id = y.event_id) => x = y}

Filters == {NoFilter} \cup {ProjectFilter({p}) : p \in 1..MaxProject}

\* any events, any event of them (or none) to start from, any time of the call
InitEvents ==
    /\ cache = EmptyCache
    /\ db = [p \in PKs |-> NoRow]
    /\ insts = [i \in Insts |-> NoInst]
    /\ tracked = [t \in Threads |-> [i \in Insts |-> NoTrack]]
    /\ th = [t \in Threads |-> IdleFrame]
    /\ last = NoLast
    /\ saved = NoneSaved
    /\ strict = FALSE
    /\ \E rows \in EventSets, now \in 1..MaxTime :
          \E event \in rows \cup {None} :
             fx = [kind |-> "events", rows |-> rows, event |-> event,
                   now |-> now, op |-> "none", fk |-> NoFilter,
                   error |-> FALSE, out |-> None]

NextEvents ==
    \/ \E filter_keys \in Filters, fault \in BOOLEAN :
          GetNextEventId(<<>>, filter_keys, fault)
    \/ \E filter_keys \in Filters, fault \in BOOLEAN :
          GetPrevEventId(<<>>, filter_keys, fault)

SpecEvents == InitEvents /\ [][NextEvents]_vars

-----------------------------------------------------------------------------
(* get_next_event_id and then get_prev_event_id, called with one list object
   as conditions *)

\* the lists a caller passes as conditions
CallerConditions ==
    {<<>>} \cup {<< <<<<"project_id", "=", p>>>> >> : p \in 1..MaxProject}

\* conditions = conditions or []: an empty list gives way to a new one, any
\* other list is the caller's object itself
IsCallersList(conditions) == conditions # <<>>

\* conditions.extend(time_condition), as the caller's list is left by it
ExtendedInPlace(conditions, time_condition) ==
    IF IsCallersList(conditions) THEN conditions \o time_condition
    ELSE conditions

\* the answers get_next_event_id can give for this content of conditions
NextAnswers(event, conditions) ==
    {GetNextOrPrevEventId(result) :
        result \in RawQuery(fx.rows, event.datetime, fx.now,
                            conditions \o TimeConditionNext(event), NoFilter,
                            <<"timestamp", "event_id">>, FALSE)}

\* the answers get_prev_event_id can give for this content of conditions
PrevAnswers(event, conditions) ==
    {GetNextOrPrevEventId(result) :
        result \in RawQuery(fx.rows, Epoch, event.datetime,
                            conditions \o TimeConditionPrev(event), NoFilter,
                            <<"-timestamp", "-event_id">>, FALSE)}

\* get_next_event_id(fx.event, fx.list): fx.list is the caller's list object
CallNext ==
    /\ fx.step = 0
    /\ IF fx.event = None
       THEN fx' = [fx EXCEPT !.step = 1, !.next_out = None]
       ELSE \E out \in NextAnswers(fx.event, fx.list) :
               fx' = [fx EXCEPT
                         !.step = 1, !.next_out = out,
                         !.list = ExtendedInPlace(fx.list,
                                                  TimeConditionNext(fx.event))]
    /\ UNCHANGED <<cache, db, insts, tracked, th, last, saved, strict>>

\* get_prev_event_id(fx.event, fx.list), with the same list object
CallPrev ==
    /\ fx.step = 1
    /\ IF fx.event = None
       THEN fx' = [fx EXCEPT !.step = 2, !.prev_out = None]
       ELSE \E out \in PrevAnswers(fx.event, fx.list) :
               fx' = [fx EXCEPT
                         !.step = 2, !.prev_out = out,
                         !.list = ExtendedInPlace(fx.list,
                                                  TimeConditionPrev(fx.event))]
    /\ UNCHANGED <<cache, db, insts, tracked, th, last, saved, strict>>

\* any events, any event of them (or none), any list of conditions; given
\* keeps what the list held when the caller built it
InitConditions ==
    /\ cache = EmptyCache
    /\ db = [p \in PKs |-> NoRow]
    /\ insts = [i \in Insts |-> NoInst]
    /\ tracked = [t \in Threads |-> [i \in Insts |-> NoTrack]]
    /\ th = [t \in Threads |-> IdleFrame]
    /\ last = NoLast
    /\ saved = NoneSaved
    /\ strict = FALSE
    /\ \E rows \in EventSets, now \in 1..MaxTime, given \in CallerConditions :
          \E event \in rows \cup {None} :
             fx = [kind |-> "conditions", rows |-> rows, event |-> event,
                   now |-> now, given |-> given, list |-> given, step |-> 0,
                   next_out |-> None, prev_out |-> None]

NextConditions == CallNext \/ CallPrev

SpecConditions == InitConditions /\ [][NextConditions]_vars

-----------------------------------------------------------------------------
(* EventManager.from_event_id: an event by its id or by its hex event_id *)

\* BoundedBigIntegerField.MAX_VALUE, and the length of a hex event id, scaled
MaxValue == 10
HexLen == 2
MaxRows == 2

\* project_id is None
NoProject == 0

\* the characters of an identifier; "sup2" is the one character U+00B2
Alphabet == <<"0", "1", "a", "A", "sup2">>
Digits == <<"0", "1", "2", "3", "4", "5", "6", "7", "8", "9">>
HexDigits == Range(Digits) \cup {"a", "b", "c", "d", "e", "f"}

\* str.isdigit(): every character is a digit, and there is one; the
\* superscript digits are digits
IsDigit(s) ==
    IF Len(s) = 0 THEN FALSE
    ELSE \A n \in 1..Len(s) : s[n] \in Range(Digits) \cup {"sup2"}

\* int(s) is a number: s is a string of decimal digits; else ValueError
IsDecimal(s) ==
    IF Len(s) = 0 THEN FALSE ELSE \A n \in 1..Len(s) : s[n] \in Range(Digits)

DigitValue(c) == (CHOOSE n \in 1..Len(Digits) : Digits[n] = c) - 1

RECURSIVE IntOf(_)
IntOf(s) ==
    IF s = <<>> THEN 0
    ELSE 10 * IntOf(SubSeq(s, 1, Len(s) - 1)) + DigitValue(s[Len(s)])

Lower(c) ==
    CASE c = "A" -> "a" [] c = "B" -> "b" [] c = "C" -> "c"
      [] c = "D" -> "d" [] c = "E" -> "e" [] c = "F" -> "f"
      [] OTHER -> c

\* normalize_event_id: the hex identifier in lower case, or nothing (the
\* empty string here) when the value is no hex identifier of the length
NormalizeEventId(s) ==
    IF Len(s) # HexLen THEN <<>>
    ELSE IF \A n \in 1..Len(s) : Lower(s[n]) \in HexDigits
         THEN [n \in 1..Len(s) |-> Lower(s[n])]
         ELSE <<>>

EventRow(id, pid, eid) ==
    [kind |-> "Event", id |-> id, project_id |-> pid, event_id |-> eid]

\* self.get(id = id[, project_id = project_id]): the row, or None for
\* DoesNotExist; the id given as a string is compared as a number
GetById(rows, id, project_id) ==
    LET found == {r \in rows :
                     /\ r.id = IntOf(id)
                     /\ IF project_id = NoProject THEN TRUE
                        ELSE r.project_id = project_id}
    IN IF found = {} THEN None ELSE CHOOSE r \in found : TRUE

\* self.get(event_id = event_id, project_id = project_id)
GetByEventId(rows, event_id, project_id) ==
    LET found == {r \in rows : r.event_id = event_id /\ r.project_id = project_id}
    IN IF found = {} THEN None ELSE CHOOSE r \in found : TRUE

\* from_event_id(id_or_event_id, project_id): what it returns or raises,
\* and the lookups it made
FromEventId(rows, id_or_event_id, project_id) ==
    IF IsDigit(id_or_event_id) /\ ~IsDecimal(id_or_event_id)
    THEN [ret |-> None, raised |-> "ValueError", gets |-> <<>>]
    ELSE LET by_id == IF IsDigit(id_or_event_id)
                      THEN IntOf(id_or_event_id) <= MaxValue
                      ELSE FALSE
             event == IF by_id THEN GetById(rows, id_or_event_id, project_id)
                      ELSE None
             event_id == NormalizeEventId(id_or_event_id)
             by_event_id == /\ project_id # NoProject
                            /\ event = None
                            /\ event_id # <<>>
         IN [ret |-> IF by_event_id
                     THEN GetByEventId(rows, event_id, project_id)
                     ELSE event,
             raised |-> "",
             gets |-> (IF by_id THEN <<"id">> ELSE <<>>)
                         \o (IF by_event_id THEN <<"event_id">> ELSE <<>>)]

\* a caller resolves an identifier
Resolve(id_or_event_id, project_id) ==
    /\ fx' = [fx EXCEPT !.op = "from_event_id",
                        !.id = id_or_event_id,
                        !.project_id = project_id,
                        !.res = FromEventId(fx.rows, id_or_event_id, project_id)]
    /\ UNCHANGED <<cache, db, insts, tracked, th, last, saved, strict>>

Identifiers == UNION {[1..n -> Range(Alphabet)] : n \in 0..HexLen}

\* the rows of the events table: ids are unique, and so are the event ids
\* of a project
EventTables ==
    {rows \in SUBSET {EventRow(id, pid, eid) :
                         id \in {1, MaxValue},
                         pid \in 1..MaxProject,
                         eid \in {<<"0", "1">>, <<"1", "1">>, <<"a", "a">>}} :
        /\ Cardinality(rows) <= MaxRows
        /\ \A x, y \in rows :
              (\/ x.id = y.id
               \/ x.project_id = y.project_id /\ x.event_id = y.event_id) => x = y}

InitResolve ==
    /\ cache = EmptyCache
    /\ db = [p \in PKs |-> NoRow]
    /\ insts = [i \in Insts |-> NoInst]
    /\ tracked = [t \in Threads |-> [i \in Insts |-> NoTrack]]
    /\ th = [t \in Threads |-> IdleFrame]
    /\ last = NoLast
    /\ saved = NoneSaved
    /\ strict = FALSE
    /\ \E rows \in EventTables :
          fx = [kind |-> "resolve", rows |-> rows, op |-> "none", id |-> <<>>,
                project_id |-> NoProject,
                res |-> [ret |-> None, raised |-> "", gets |-> <<>>]]

NextResolve ==
    \E id_or_event_id \in Identifiers, project_id \in {NoProject} \cup (1..MaxProject) :
        Resolve(id_or_event_id, project_id)

SpecResolve == InitResolve /\ [][NextResolve]_vars

-----------------------------------------------------------------------------
(* make_key called with the same keyword arguments in two orders *)

\* a call passes at most MaxArgs keyword arguments
MaxArgs == 3

\* a keyword argument: a name and a value of the field it names
KeyItems ==
    {<<k, v>> : k \in {"id", "pk"}, v \in PKs}
      \cup {<<k, v>> : k \in {"slug", "slug__exact"}, v \in Slugs}

\* the keyword arguments of a call, in every order a dict may yield them:
\* the names are distinct
KeyArgs ==
    {kw \in UNION {[1..n -> KeyItems] : n \in 1..MaxArgs} :
        \A n, m \in 1..Len(kw) : kw[n][1] = kw[m][1] => n = m}

KeyPrefixes == {"modelcache", "p"}

\* make_key(model, prefix, first) and make_key(model, prefix, second)
MakeKeys ==
    /\ fx.op = "none"
    /\ fx' = [fx EXCEPT !.op = "make_key",
                        !.key1 = MakeKey(fx.prefix, fx.first),
                        !.key2 = MakeKey(fx.prefix, fx.second)]
    /\ UNCHANGED <<cache, db, insts, tracked, th, last, saved, strict>>

\* any prefix, any keyword arguments, given in any two orders
InitKeys ==
    /\ cache = EmptyCache
    /\ db = [p \in PKs |-> NoRow]
    /\ insts = [i \in Insts |-> NoInst]
    /\ tracked = [t \in Threads |-> [i \in Insts |-> NoTrack]]
    /\ th = [t \in Threads |-> IdleFrame]
    /\ last = NoLast
    /\ saved = NoneSaved
    /\ strict = FALSE
    /\ \E prefix \in KeyPrefixes, first \in KeyArgs :
          \E second \in {kw \in KeyArgs : Range(kw) = Range(first)} :
             fx = [kind |-> "keys", op |-> "none", prefix |-> prefix,
                   first |-> first, second |-> second,
                   key1 |-> <<>>, key2 |-> <<>>]

NextKeys == MakeKeys

SpecKeys == InitKeys /\ [][NextKeys]_vars

-----------------------------------------------------------------------------
(* EventManager.bind_nodes: the node data of a list of objects, fetched at
   once *)

\* objects 1..MaxObj, lists of at most MaxList of them
MaxObj == 2
MaxList == 2

\* the names of the attributes that hold a NodeData, and the node ids
NodeNames == {"data", "meta"}
NodeIds == {"n1", "n2"}
\* node.id of a NodeData that has none (None)
NoNode == "None"
\* a blob of the nodestore; the empty one is the payload {}
EmptyBlob == "{}"
Blobs == {EmptyBlob, "blob"}

RECURSIVE Flatten(_)
Flatten(seqs) == IF seqs = <<>> THEN <<>> ELSE Head(seqs) \o Flatten(Tail(seqs))

\* ((i, getattr(i, name)) for i in object_list if getattr(i, name).id)
NodesOf(objs, object_list, name) ==
    LET picked == SelectSeq(object_list, LAMBDA i : objs[i][name] # NoNode)
    IN [k \in 1..Len(picked) |->
           [item |-> picked[k], name |-> name, id |-> objs[picked[k]][name]]]

\* nodestore.get_multi(node_ids): the blobs the store has of these ids
GetMulti(store, node_ids) ==
    [id \in Range(node_ids) \cap DOMAIN store |-> store[id]]

\* node_results.get(node.id) or {}
DataOf(node_results, id) ==
    IF id \in DOMAIN node_results THEN node_results[id] ELSE EmptyBlob

\* bind_nodes that fetches the blob of every node by itself
BindNodesOneByOne(objs, store, object_list, node_names) ==
    LET object_node_list ==
            Flatten([k \in 1..Len(node_names) |->
                        NodesOf(objs, object_list, node_names[k])])
    IN [fetches |-> [k \in 1..Len(object_node_list) |-> <<object_node_list[k].id>>],
        binds |-> [k \in 1..Len(object_node_list) |->
                      [item |-> object_node_list[k].item,
                       name |-> object_node_list[k].name,
                       data |-> DataOf(GetMulti(store, <<object_node_list[k].id>>),
                                       object_node_list[k].id)]]]

\* bind_nodes(object_list, *node_names): the calls of nodestore.get_multi it
\* makes and the calls of node.bind_data, in their order
BindNodes(objs, store, object_list, node_names) ==
    LET object_node_list ==
            Flatten([k \in 1..Len(node_names) |->
                        NodesOf(objs, object_list, node_names[k])])
        node_ids == [k \in 1..Len(object_node_list) |-> object_node_list[k].id]
        node_results == GetMulti(store, node_ids)
    IN IF node_ids = <<>> THEN [fetches |-> <<>>, binds |-> <<>>]
       ELSE [fetches |-> <<node_ids>>,
             binds |-> [k \in 1..Len(object_node_list) |->
                           [item |-> object_node_list[k].item,
                            name |-> object_node_list[k].name,
                            data |-> DataOf(node_results, object_node_list[k].id)]]]

\* a caller binds the nodes of a list of objects
Bind(object_list, node_names) ==
    /\ fx.op = "none"
    /\ fx' = [fx EXCEPT !.op = "bind_nodes",
                        !.object_list = object_list,
                        !.node_names = node_names,
                        !.res = BindNodes(fx.objs, fx.store, object_list, node_names)]
    /\ UNCHANGED <<cache, db, insts, tracked, th, last, saved, strict>>

SeqsUpTo(set, n) == UNION {[1..k -> set] : k \in 0..n}

\* any objects with or without node ids, any blobs in the nodestore
InitNodes ==
    /\ cache = EmptyCache
    /\ db = [p \in PKs |-> NoRow]
    /\ insts = [i \in Insts |-> NoInst]
    /\ tracked = [t \in Threads |-> [i \in Insts |-> NoTrack]]
    /\ th = [t \in Threads |-> IdleFrame]
    /\ last = NoLast
    /\ saved = NoneSaved
    /\ strict = FALSE
    /\ \E objs \in [1..MaxObj -> [NodeNames -> NodeIds \cup {NoNode}]],
          have \in SUBSET NodeIds :
          \E store \in [have -> Blobs] :
             fx = [kind |-> "nodes", op |-> "none", objs |-> objs, store |-> store,
                   object_list |-> <<>>, node_names |-> <<>>,
                   res |-> [fetches |-> <<>>, binds |-> <<>>]]

NextNodes ==
    \E object_list \in SeqsUpTo(1..MaxObj, MaxList),
       node_names \in SeqsUpTo(NodeNames, Cardinality(NodeNames)) :
        Bind(object_list, node_names)

SpecNodes == InitNodes /\ [][NextNodes]_vars

-----------------------------------------------------------------------------
(* The claims.  last reports the operation that ended last. *)

\* get_from_cache answers these kwargs through the cache
Cacheable(kwargs) ==
    /\ CacheFields # <<>>
    /\ Len(kwargs) = 1
    /\ (LookupKey(kwargs) \in Range(CacheFields) \/ LookupKey(kwargs) = PkName)

\* the cache key these kwargs are looked up under
KeyOf(kwargs) == GetLookupCacheKey(LookupKey(kwargs), LookupValue(kwargs))

\* the cache key of the instance with primary key p
PkKey(p) == GetLookupCacheKey(PkName, p)

\* the kwargs name the cacheable field f
BySecondary(kwargs) == Cacheable(kwargs) /\ LookupKey(kwargs) # PkName

\* C1: once a save has returned for an entity whose cacheable field changed
\* in the backing store from an old to a new value, the cache holds no
\* pointer entry of the old value that resolves to the entity -- whichever
\* instance was saved and in whichever thread.
C1_NoStalePointerAfterSave ==
    (last.op = "save" /\ last.out = "ok" /\ last.old # NoRow) =>
        \A n \in 1..Len(CacheFields) :
            (~IsPkField(CacheFields[n])
                /\ last.old[CacheFields[n]] # last.obj[CacheFields[n]]) =>
                    CacheGet(cache, GetLookupCacheKey(CacheFields[n],
                                                      last.old[CacheFields[n]]))
                        # IntVal(last.pk)

\* C2: under any interleaving of saves and lookups, a lookup by the
\* cacheable field that is answered through the pointer entry and the value
\* entry (two cache reads, no backing-store lookup) returns the field values
\* of the most recent save of that primary key that has returned.  Stated
\* for the lookups that return while no save is running, so that a newer
\* value written by a save still running does not count against it.
C2_PointerPathSeesLatestSave ==
    (/\ last.op = "lookup"
     /\ \A t \in Threads : th[t].op # "save"
     /\ last.out = "ok"
     /\ BySecondary(last.kw)
     /\ last.reads = 2
     /\ last.gets = 0
     /\ saved[last.obj.id] # NoInst) =>
        last.obj.slug = saved[last.obj.id].obj.slug

\* the save of p that returned last, with nothing but lookups since, wrote
\* the value entry
Put(p) == IF saved[p] = NoInst THEN FALSE ELSE saved[p].put

\* C3: after a save of e whose cache write succeeded, and nothing but lookups
\* since, a lookup by e's primary key returns an entity equal to e and asks
\* the backing store nothing.
C3_RoundTripPk ==
    \A p \in PKs :
        (last.op = "lookup" /\ Put(p) /\ last.kw = <<<<"pk", p>>>>) =>
            /\ last.out = "ok"
            /\ last.obj = saved[p].obj
            /\ last.gets = 0

C3_Witness ==
    \E p \in PKs :
        /\ last.op = "lookup"
        /\ Put(p)
        /\ last.kw = <<<<"pk", p>>>>
        /\ last.out = "ok"
        /\ last.reads = 1

C5_DeleteInvalidates ==
    (last.op = "delete" /\ last.out = "ok" /\ Idle) =>
        /\ PkKey(last.pk) \notin DOMAIN cache
        /\ \A k \in DOMAIN cache : cache[k] # IntVal(last.pk)

\* C6: a cache operation that raises during __post_save never makes the save
\* raise.
C6_SaveNeverRaises == last.op = "save" => last.out = "ok"

\* C7: when the value the cache holds under the primary key a lookup
\* resolves to is no model instance, or an instance of another primary key,
\* the lookup never returns it: without settings.DEBUG it returns what a
\* fresh self.get returns (or its DoesNotExist) and raises no ValueError;
\* with settings.DEBUG it raises ValueError.  (Such a lookup leaves the cache
\* as it is, so the entry is still there when the lookup has ended.)
C7_PoisonedEntryFallback ==
    LET ptr == CacheGet(cache, KeyOf(last.kw))
        p == IF BySecondary(last.kw) THEN ptr.v ELSE LookupValue(last.kw)
        v == CacheGet(cache, PkKey(p))
    IN (/\ last.op = "lookup"
        /\ Cacheable(last.kw)
        /\ BySecondary(last.kw) => ptr # None
        /\ v # None
        /\ IF IsModel(v) THEN v.id # p ELSE TRUE) =>
           /\ last.bad
           /\ last.same
           /\ IF last.obj = NoInst THEN TRUE ELSE [last.obj EXCEPT !.db = NoDb] # v
           /\ IF strict THEN last.out = "ValueError"
              ELSE /\ last.gets = 1
                   /\ IF db[p] = NoRow THEN last.out = "NotFound"
                      ELSE last.out = "ok" /\ last.obj = FromRow(db, p)

C7_Witness ==
    /\ last.op = "lookup"
    /\ last.bad
    /\ ~strict
    /\ last.out = "ok"
    /\ \E k \in DOMAIN cache : IsModel(cache[k]) /\ cache[k].id # last.obj.id

\* C8: a lookup that misses the cache and finds no row raises DoesNotExist; a
\* lookup that raises DoesNotExist has left the cache as it was; and the same
\* lookup made again right after it asks the backing store again.
C8_NegativeNotCached ==
    [][\A t \in Threads, i \in Insts, kwargs \in LookupArgs :
          (last'.op = "lookup" /\ last'.kw = kwargs /\ Lookup(t, i, kwargs)) =>
             /\ (/\ Cacheable(kwargs)
                 /\ CacheGet(cache, KeyOf(kwargs)) = None
                 /\ DbMatches(db, kwargs) = {}) => last'.out = "NotFound"
             /\ last'.out = "NotFound" =>
                   (cache' = cache /\ last'.same /\ last'.gets > 0)
             /\ (last.op = "lookup" /\ last.out = "NotFound" /\ last.kw = kwargs) =>
                   (last'.out = "NotFound" /\ last'.gets > 0)
      ]_vars

C8_Witness ==
    /\ last.op = "lookup"
    /\ last.out = "NotFound"
    /\ last.reads > 0
    /\ last.gets > 0
    /\ Cacheable(last.kw)

\* e comes after r in ascending (timestamp, identifier) order
After(e, r) ==
    \/ e.timestamp > r.timestamp
    \/ e.timestamp = r.timestamp /\ IdIndex(e.event_id) > IdIndex(r.event_id)

\* the pairs of the least events of G, of the greatest events of G
LeastOf(G) ==
    {Pair(ToString(e.project_id), e.event_id) :
        e \in {x \in G : \A y \in G : ~After(x, y)}}
GreatestOf(G) ==
    {Pair(ToString(e.project_id), e.event_id) :
        e \in {x \in G : \A y \in G : ~After(y, x)}}

\* C9 as stated: for any events and any event r of them, get_next_event_id(r)
\* returns (project_id, event_id) of the least event after r in ascending
\* (timestamp, event_id) order, get_prev_event_id(r) that of the greatest
\* event before r, each None when there is no such event, and never r.
C9_AnyEvents ==
    (fx.event # None /\ fx.fk = NoFilter /\ fx.op # "none") =>
        LET later == {e \in fx.rows : After(e, fx.event)}
            earlier == {e \in fx.rows : After(fx.event, e)}
            G == IF fx.op = "next" THEN later ELSE earlier
            best == IF fx.op = "next" THEN LeastOf(later) ELSE GreatestOf(earlier)
        IN /\ IF G = {} THEN fx.out = None ELSE fx.out \in best
           /\ fx.out # Pair(ToString(fx.event.project_id), fx.event.event_id)

\* C9: when the query does not answer with an error, get_next_event_id(r)
\* returns (project_id, event_id) of the least event after r in ascending
\* (timestamp, event_id) order among the events whose timestamp is not past
\* the time of the call, get_prev_event_id(r) that of the greatest event
\* before r, each None when there is no such event, and never r; events of
\* r's timestamp are ordered by event_id.
C9_NeighbourOrdering ==
    (fx.event # None /\ fx.fk = NoFilter /\ fx.op # "none" /\ ~fx.error) =>
        LET later == {e \in fx.rows : After(e, fx.event) /\ e.timestamp <= fx.now}
            earlier == {e \in fx.rows : After(fx.event, e)}
            G == IF fx.op = "next" THEN later ELSE earlier
            best == IF fx.op = "next" THEN LeastOf(later) ELSE GreatestOf(earlier)
        IN /\ IF G = {} THEN fx.out = None ELSE fx.out \in best
           /\ fx.out # Pair(ToString(fx.event.project_id), fx.event.event_id)

\* get_next_event_id has returned an event of r's timestamp
C9_Witness ==
    /\ fx.event # None
    /\ fx.fk = NoFilter
    /\ fx.op = "next"
    /\ ~fx.error
    /\ \E e \in fx.rows :
          /\ e.timestamp = fx.event.timestamp
          /\ e.project_id = fx.event.project_id
          /\ fx.out = Pair(ToString(e.project_id), e.event_id)

\* the rows with the primary key the identifier names, when it is all digits
\* and within the maximum; the rows with the hex event id it normalizes to
PkRows ==
    IF IsDigit(fx.id) /\ IsDecimal(fx.id)
    THEN {r \in fx.rows :
             /\ IntOf(fx.id) <= MaxValue
             /\ r.id = IntOf(fx.id)
             /\ IF fx.project_id = NoProject THEN TRUE
                ELSE r.project_id = fx.project_id}
    ELSE {}
HexRows ==
    {r \in fx.rows :
        /\ fx.project_id # NoProject
        /\ NormalizeEventId(fx.id) # <<>>
        /\ r.project_id = fx.project_id
        /\ r.event_id = NormalizeEventId(fx.id)}

\* what from_event_id is to return: the primary-key match, with no lookup by
\* event id made; else the match by (project id, hex id); else None
Precedence ==
    /\ fx.res.raised = ""
    /\ IF PkRows # {}
       THEN fx.res.ret \in PkRows /\ "event_id" \notin Range(fx.res.gets)
       ELSE IF HexRows # {} THEN fx.res.ret \in HexRows
       ELSE fx.res.ret = None

\* C10 as stated: for every identifier string and project id, from_event_id
\* returns the primary-key match whenever the identifier is all digits,
\* within the maximum and such a row exists (scoped by the project id if
\* given), and then makes no lookup by event id; otherwise the result of the
\* (project id, hex id) lookup if the identifier normalizes to a hex id and a
\* project id is given; otherwise None; and it raises nothing.
C10_EveryIdentifier == fx.op = "from_event_id" => Precedence

\* C10 for the identifiers int() takes: the same, for every identifier whose
\* digits, if it is all digits, are decimal digits.
C10_DecimalIdentifiers ==
    (fx.op = "from_event_id" /\ (IsDigit(fx.id) => IsDecimal(fx.id))) => Precedence

\* a numeric identifier that is also a hex id has resolved to its
\* primary-key row while a row of that hex id exists
C10_Witness ==
    /\ fx.op = "from_event_id"
    /\ PkRows # {}
    /\ HexRows # {}
    /\ fx.res.ret \in PkRows

\* C11: make_key returns the same key for every order in which the same
\* keyword arguments are given, and the same key again for the same call.
C11_KeyDeterminism ==
    (fx.op = "make_key" /\ Range(fx.first) = Range(fx.second)) =>
        /\ fx.key1 = fx.key2
        /\ fx.key1 = MakeKey(fx.prefix, fx.first)

\* two calls with the same three arguments in different orders
C11_Witness ==
    /\ fx.op = "make_key"
    /\ Len(fx.first) > 2
    /\ fx.first # fx.second
    /\ fx.first[1] = fx.second[Len(fx.second)]
    /\ fx.key1 = fx.key2

\* the (object, attribute) references of the call whose node has an id
Collected ==
    {r \in Range(fx.object_list) \X Range(fx.node_names) :
        fx.objs[r[1]][r[2]] # NoNode}

\* how often x occurs in seq
Count(seq, x) == Cardinality({k \in 1..Len(seq) : seq[k] = x})

\* the calls of bind_data on the node of reference r
BindsOf(r) ==
    {k \in 1..Len(fx.res.binds) :
        fx.res.binds[k].item = r[1] /\ fx.res.binds[k].name = r[2]}

\* one fetch of the ids of all collected references, none when there is
\* none; every bind_data is of a collected reference and passes the blob the
\* store has of its id, or the empty payload
OneFetchRightData ==
    /\ IF Collected = {} THEN fx.res.fetches = <<>>
       ELSE /\ Len(fx.res.fetches) = 1
            /\ Range(fx.res.fetches[1]) = {fx.objs[r[1]][r[2]] : r \in Collected}
    /\ \A k \in 1..Len(fx.res.binds) :
          LET b == fx.res.binds[k]
              id == fx.objs[b.item][b.name]
          IN /\ <<b.item, b.name>> \in Collected
             /\ b.data = IF id \in DOMAIN fx.store THEN fx.store[id] ELSE EmptyBlob

\* C12 as stated: for any list of objects and attribute names, bind_nodes
\* makes exactly one fetch of all the non-null node ids (none when there is
\* none), and every collected reference is then bound exactly once, to its
\* blob if the result has it and to the empty payload if not.
C12_AnyList ==
    fx.op = "bind_nodes" =>
        /\ OneFetchRightData
        /\ \A r \in Collected : Cardinality(BindsOf(r)) = 1

\* C12: the same, with every collected reference bound once for each time
\* its object is in the list and its attribute among the names: exactly once
\* when the objects of the list and the names are distinct.
C12_BatchBinding ==
    fx.op = "bind_nodes" =>
        /\ OneFetchRightData
        /\ \A r \in Collected :
              Cardinality(BindsOf(r)) =
                  Count(fx.object_list, r[1]) * Count(fx.node_names, r[2])

\* two objects, one whose blob the store has and one whose blob it lacks,
\* bound after one fetch
C12_Witness ==
    /\ fx.op = "bind_nodes"
    /\ Len(fx.res.fetches) = 1
    /\ \E k, j \in 1..Len(fx.res.binds) :
          /\ fx.res.binds[k].item # fx.res.binds[j].item
          /\ fx.res.binds[k].data = "blob"
          /\ fx.res.binds[j].data = EmptyBlob
          /\ fx.objs[fx.res.binds[j].item][fx.res.binds[j].name] \notin DOMAIN fx.store

\* C13: once a lookup by slug = v that read the pointer entry of slug = v
\* has returned, that pointer entry does not resolve to an entity whose slug
\* is not v: a stale pointer the lookup read is gone or replaced.
C13_StalePointerSelfCorrects ==
    LET ptr == CacheGet(cache, KeyOf(last.kw))
    IN (/\ last.op = "lookup"
        /\ BySecondary(last.kw)
        /\ last.reads = 2
        /\ ptr # None) =>
           IF db[ptr.v] = NoRow THEN TRUE
           ELSE db[ptr.v][LookupKey(last.kw)] = LookupValue(last.kw)

\* C14: an entity a lookup by slug = v returns has slug v, in every
\* reachable state of the cache.
C14_ReturnedFieldMatches ==
    (last.op = "lookup" /\ last.out = "ok" /\ BySecondary(last.kw)) =>
        last.obj[LookupKey(last.kw)] = LookupValue(last.kw)

\* C15: a save of an instance the saving thread has tracked state of, when
\* it returns, has deleted the pointer entry of the tracked value of every
\* cacheable field whose tracked value differs from the instance's value and
\* no other pointer entry, has the pointer entry of the instance's value in
\* the cache, and has made the instance's values the tracked state.
C15_TrackedSaveDeletesStale ==
    [][\A t \in Threads, i \in Insts, p \in PKs, fails \in SaveFails :
          (/\ last'.op = "save"
           /\ last'.out = "ok"
           /\ insts[i] # NoInst
           /\ tracked[t][i] # NoTrack
           /\ Save(t, i, p, fails)) =>
             /\ \A n \in 1..Len(CacheFields) : \A v \in Slugs :
                   LET f == CacheFields[n]
                       k == GetLookupCacheKey(f, v)
                   IN IF v = insts[i][f] THEN CacheGet(cache', k) = IntVal(last'.pk)
                      ELSE IF v = tracked[t][i].state[f] THEN k \notin DOMAIN cache'
                      ELSE CacheGet(cache', k) = CacheGet(cache, k)
             /\ tracked'[t][i] =
                   [kind |-> "state",
                    state |-> [f \in Range(CacheFields) |-> insts[i][f]]]]_vars

\* a tracked save that changed the slug has returned: the pointer of the old
\* slug, which an earlier save had written, is gone and the pointer of the
\* new one is there
C15_Witness ==
    /\ last.op = "save"
    /\ last.out = "ok"
    /\ last.had
    /\ last.old # NoRow
    /\ last.old.slug # last.obj.slug
    /\ GetLookupCacheKey("slug", last.old.slug) \notin DOMAIN cache
    /\ CacheGet(cache, GetLookupCacheKey("slug", last.obj.slug)) = IntVal(last.pk)

\* the same get_from_cache called again in the current state reaches the
\* backing store
Refetches(kwargs) ==
    LET t == CHOOSE u \in Threads : TRUE
    IN Run(BeginLookup(S, t, 0, kwargs), t).last.gets > 0

\* a get_from_cache on a cacheable field or the primary key found no entry,
\* got the entity from the backing store and returned it
Filled ==
    /\ last.op = "lookup"
    /\ last.out = "ok"
    /\ Cacheable(last.kw)
    /\ last.gets = 1
    /\ ~last.bad

\* the cache holds the value entry of entity e and a pointer to e of every
\* cacheable field
HoldsEntries(e) ==
    /\ CacheGet(cache, PkKey(e.id)) = [e EXCEPT !.db = NoDb]
    /\ \A n \in 1..Len(CacheFields) :
          ~IsPkField(CacheFields[n]) =>
              CacheGet(cache, GetLookupCacheKey(CacheFields[n], e[CacheFields[n]]))
                  = IntVal(e.id)

\* C16 as the spec states it: after every lookup that missed and returned
\* the entity of the backing store, the cache holds its value entry and its
\* pointers, and the same lookup again does not reach the backing store.
C16_AnyFill ==
    Filled => (HoldsEntries(last.obj) /\ ~Refetches(last.kw))

\* C16: after a lookup that missed and returned the entity of the backing
\* store, and whose write of the value entry did not raise, the cache holds
\* the entity's value entry and a pointer to it of every cacheable field,
\* and the same lookup again does not reach the backing store.
C16_ReadThroughFill ==
    (Filled /\ "set_val" \notin last.fails) =>
        (HoldsEntries(last.obj) /\ ~Refetches(last.kw))

\* a lookup by slug missed, fetched the entity and filled the cache
C16_Witness ==
    /\ Filled
    /\ "set_val" \notin last.fails
    /\ BySecondary(last.kw)
    /\ ~last.same
    /\ HoldsEntries(last.obj)

\* the step was a lookup that read nothing from the cache, wrote nothing to
\* it, and gave what self.get(kwargs) gives: the row that matches, or
\* DoesNotExist
Bypassed(kwargs) ==
    /\ cache' = cache
    /\ last'.reads = 0
    /\ last'.same
    /\ IF DbMatches(db, kwargs) = {} THEN last'.out = "NotFound"
       ELSE /\ last'.out = "ok"
            /\ last'.obj = FromRow(db, CHOOSE p \in DbMatches(db, kwargs) : TRUE)

\* C17: get_from_cache neither reads nor writes the cache and returns what
\* self.get(kwargs) returns when the manager has no cache fields, when more
\* than one filter is given, and when the one filter given names neither a
\* cache field nor the primary key.
C17_Bypass ==
    [][\A t \in Threads, i \in Insts, kwargs \in LookupArgs \cup OtherArgs :
          (last'.op = "lookup" /\ last'.kw = kwargs) =>
             /\ LookupUncached(t, i, kwargs) => Bypassed(kwargs)
             /\ (~Cacheable(kwargs) /\ Lookup(t, i, kwargs)) => Bypassed(kwargs)]_vars

\* a lookup by a filter that is no cache field has returned an entity whose
\* value entry and pointer the cache holds, without reading the cache
C17_Witness ==
    /\ last.op = "lookup"
    /\ last.out = "ok"
    /\ last.kw \in OtherArgs
    /\ last.reads = 0
    /\ last.gets = 1
    /\ HoldsEntries(last.obj)

\* C18: uncache_object(instance_id) deletes the value entry of instance_id
\* and leaves every other cache entry -- the pointers that resolve to
\* instance_id among them -- and all tracked state as they were.
C18_UncacheOnlyValueEntry ==
    [][\A t \in Threads, p \in PKs \cup OtherIds :
          (last'.op = "uncache" /\ last'.pk = p /\ Uncache(t, p)) =>
             /\ DOMAIN cache' = DOMAIN cache \ {PkKey(p)}
             /\ \A k \in DOMAIN cache' : cache'[k] = cache[k]
             /\ tracked' = tracked]_vars

\* uncache_object has returned while a thread has tracked state: the value
\* entry it names is gone, and the cache holds a pointer that resolves to
\* the id or the value entry of another id
C18_Witness ==
    /\ last.op = "uncache"
    /\ PkKey(last.pk) \notin DOMAIN cache
    /\ \E k \in DOMAIN cache :
          \/ cache[k] = IntVal(last.pk)
          \/ (IsModel(cache[k]) /\ cache[k].id # last.pk)
    /\ \E t \in Threads, i \in Insts : tracked[t][i] # NoTrack

\* C19: no value entry in the cache carries a connection (_state.db is
\* None in each), and after a save has returned the saved instance has the
\* connection it was saved with, also when the write of its value entry
\* raised.
C19_NoConnectionInCache ==
    /\ \A k \in DOMAIN cache : IsModel(cache[k]) => cache[k].db = NoDb
    /\ (last.op = "save" /\ last.out = "ok") => last.obj.db = DefaultDb

\* a save whose write of the value entry raised has returned, its instance
\* has its connection, and the cache holds a value entry an earlier save
\* has written
C19_Witness ==
    /\ last.op = "save"
    /\ last.out = "ok"
    /\ "set_val" \in last.fails
    /\ last.obj.db = DefaultDb
    /\ \E k \in DOMAIN cache : IsModel(cache[k]) /\ cache[k].db = NoDb

\* C20: get_next_event_id and get_prev_event_id leave the list passed as
\* conditions as it was, so get_prev_event_id called after get_next_event_id
\* with the same list answers as it does with a copy of the original list.
C20_ConditionsUnchanged ==
    /\ fx.step >= 1 => fx.list = fx.given
    /\ (fx.step = 2 /\ fx.event # None) =>
          fx.prev_out \in PrevAnswers(fx.event, fx.given)

\* both calls have been made with a list that was not empty, for an event
\* that has an event before it under the original conditions
C20_Witness ==
    /\ fx.step = 2
    /\ fx.event # None
    /\ fx.given # <<>>
    /\ None \notin PrevAnswers(fx.event, fx.given)

====
